---- MODULE Spec2Model ----
(***************************************************************************)
(* The DataTable component (src/src/components/DataTable/DataTable.tsx)    *)
(* together with the host that mounts it (the stories in                   *)
(* DataTable.stories.tsx): its props, its two pieces of React state, the   *)
(* derived display sequence and the interaction handlers.                  *)
(*                                                                         *)
(* Positions are 0-based as in the source; TLA+ sequences are 1-based, so  *)
(* the row at position p of a sequence d is d[p + 1].                      *)
(* A discrete interaction (click, checkbox change) is followed by the      *)
(* re-render React performs before the next interaction is dispatched, so  *)
(* every handler reads the state left by the previous one.                 *)
(***************************************************************************)
EXTENDS Integers, Sequences, FiniteSets, TLC

VARIABLES
    data,           \* prop `data`: the input row sequence
    loading,        \* prop `loading`
    selectable,     \* prop `selectable`
    hasOnRowSelect, \* whether the prop `onRowSelect` is supplied
    selectedRows,   \* useState<Set<number>>: the selection set
    sortConfig,     \* useState<{key, direction}>: the sort configuration
    selectedUsers,  \* host state written by the callback (setSelectedUsers)
    delivered,      \* payloads passed to onRowSelect by the last step, in order
    lastEvent,      \* the interaction or host step that produced this state, and
                    \* whether a data change came between two selectRow calls
    toggled,        \* positions toggled on since the selection was last empty
    emptyMessage,   \* prop `emptyMessage`: not given, or the text given
    pending,        \* state updates queued by handlers and not yet rendered
    other,          \* a second table instance mounted by the same host
    field           \* an InputField on the page: its props and state cells

vars == <<data, loading, selectable, hasOnRowSelect, selectedRows, sortConfig,
          selectedUsers, delivered, lastEvent, toggled, emptyMessage, pending,
          other, field>>

\* what the table's own interactions and the host's data and loading changes
\* leave alone: the other props, the update queue (empty between interactions,
\* React renders before it dispatches the next one), the other instance and
\* the input field
rest == <<emptyMessage, pending, other, field>>

----------------------------------------------------------------------------
(* Bounds of the model *)

MaxRows == 3

\* longest data sequence of the cell-rendering specification
MaxCells == 2

Names == {"A", "B"}

----------------------------------------------------------------------------
(* Rows, columns and values *)

NoKey == "null"

Untracked == [tracked |-> FALSE, P |-> {}]

\* an optional prop the caller leaves out
NotGiven == [given |-> FALSE, text |-> ""]

\* no second instance on the page
NotMounted == [mounted |-> FALSE]

\* no input field on the page
NoField == [mounted |-> FALSE]

\* row[key]; a key the row does not have reads as undefined
Field(row, key) == IF key \in DOMAIN row THEN row[key] ELSE "undefined"

\* UTF-16 code units of the one-letter names; JS compares strings by them
CharCode == [n \in Names |-> IF n = "A" THEN 65 ELSE 66]

Ids == 1..MaxRows

Rows == [id : Ids, name : Names, role : {"User"}]

\* column descriptors {key, sortable, render given or not}; as in the README
\* usage example one column is not sortable
columns ==
    << [key |-> "id",   sortable |-> TRUE,  render |-> FALSE],
       [key |-> "name", sortable |-> TRUE,  render |-> FALSE],
       [key |-> "role", sortable |-> FALSE, render |-> FALSE] >>

Range(s) == {s[i] : i \in 1..Len(s)}

Front(s) == SubSeq(s, 1, Len(s) - 1)

Last(s) == s[Len(s)]

\* rows are distinct objects: no two entries of a data sequence are the same row
DistinctIds(d) == \A i, j \in 1..Len(d) : i # j => d[i].id # d[j].id

SeqsUpTo(n) == UNION {[1..k -> Rows] : k \in 0..n}

\* every input the sort engine can be given within the bounds
AllData == {d \in SeqsUpTo(MaxRows) : DistinctIds(d)}

\* the host's pool of sample rows (sampleUsers): names repeat, ids do not
SampleRow(i) == [id |-> i, name |-> IF i % 2 = 1 THEN "B" ELSE "A", role |-> "User"]

sampleUsers == {SampleRow(i) : i \in Ids}

\* the data sequences the host passes: any arrangement of distinct sample rows
HostData == {d \in AllData : Range(d) \subseteq sampleUsers}

\* the JS relational operator `<` on two values of one field
JsLess(key, x, y) ==
    IF key = "id" THEN x < y
    ELSE IF key = "name" THEN CharCode[x] < CharCode[y]
    ELSE FALSE

----------------------------------------------------------------------------
(* Sort engine *)

compareUnstableDesc(a, b, cfg) ==
    IF cfg.direction = "asc"
    THEN IF JsLess(cfg.key, Field(a, cfg.key), Field(b, cfg.key)) THEN -1
         ELSE IF JsLess(cfg.key, Field(b, cfg.key), Field(a, cfg.key)) THEN 1 ELSE 0
    ELSE IF JsLess(cfg.key, Field(b, cfg.key), Field(a, cfg.key)) THEN -1 ELSE 1

compareInverted(a, b, cfg) ==
    IF JsLess(cfg.key, Field(a, cfg.key), Field(b, cfg.key))
    THEN (IF cfg.direction = "asc" THEN 1 ELSE -1)
    ELSE IF JsLess(cfg.key, Field(b, cfg.key), Field(a, cfg.key))
    THEN (IF cfg.direction = "asc" THEN -1 ELSE 1)
    ELSE 0

compareIgnoringDirection(a, b, cfg) ==
    IF JsLess(cfg.key, Field(a, cfg.key), Field(b, cfg.key)) THEN -1
    ELSE IF JsLess(cfg.key, Field(b, cfg.key), Field(a, cfg.key)) THEN 1
    ELSE 0

compareNoEqual(a, b, cfg) ==
    IF JsLess(cfg.key, Field(a, cfg.key), Field(b, cfg.key))
    THEN (IF cfg.direction = "asc" THEN -1 ELSE 1)
    ELSE (IF cfg.direction = "asc" THEN 1 ELSE -1)

\* the comparator passed to Array.prototype.sort
compare(a, b, cfg) ==
    IF JsLess(cfg.key, Field(a, cfg.key), Field(b, cfg.key))
    THEN (IF cfg.direction = "asc" THEN -1 ELSE 1)
    ELSE IF JsLess(cfg.key, Field(b, cfg.key), Field(a, cfg.key))
    THEN (IF cfg.direction = "asc" THEN 1 ELSE -1)
    ELSE 0

\* Array.prototype.sort is a stable sort (ECMAScript 2019): an element is
\* placed after every earlier element that does not compare greater than it
RECURSIVE InsertStable(_, _, _)
InsertStable(acc, x, cfg) ==
    IF acc = <<>> \/ compare(Last(acc), x, cfg) <= 0
    THEN Append(acc, x)
    ELSE Append(InsertStable(Front(acc), x, cfg), Last(acc))

RECURSIVE ArraySort(_, _)
ArraySort(s, cfg) ==
    IF s = <<>> THEN <<>>
    ELSE InsertStable(ArraySort(Front(s), cfg), Last(s), cfg)

sortedDataOf(d, cfg) ==
    IF cfg.key = NoKey THEN d ELSE ArraySort(d, cfg)

dataSortedInPlace(d, cfg) == sortedDataOf(d, cfg)

\* [...data].sort(...) sorts a copy: the caller's array after the memo has run
dataAfterSort(d, cfg) == d

\* useMemo(..., [data, sortConfig])
sortedData == sortedDataOf(data, sortConfig)

handleSortAlwaysToggles(prev, key) ==
    [key |-> key,
     direction |-> IF prev.direction = "asc" THEN "desc" ELSE "asc"]

handleSortThreeState(prev, key) ==
    IF prev.key = key /\ prev.direction = "desc"
    THEN [key |-> NoKey, direction |-> "asc"]
    ELSE [key |-> key,
          direction |-> IF prev.key = key /\ prev.direction = "asc"
                        THEN "desc" ELSE "asc"]

\* the updater handleSort passes to setSortConfig
handleSortUpdater(prev, key) ==
    [key |-> key,
     direction |-> IF prev.key = key /\ prev.direction = "asc"
                   THEN "desc" ELSE "asc"]

----------------------------------------------------------------------------
(* Presentation state *)

SkeletonRows == 5

RenderStateEmptyFirst ==
    IF Len(data) = 0 THEN "empty"
    ELSE IF loading THEN "loading"
    ELSE "populated"

RenderStateIgnoringLoading ==
    IF Len(data) = 0 THEN "empty" ELSE "populated"

\* if (loading) return ...; if (data.length === 0) return ...; return ...
RenderState ==
    IF loading THEN "loading"
    ELSE IF Len(data) = 0 THEN "empty"
    ELSE "populated"

\* sortedData.map((row, index) => ...): `index` runs over the display sequence
DisplayIndices == 0..(Len(sortedData) - 1)

\* checked={selectedRows.has(index)}
RowChecked(index) == index \in selectedRows

\* checked={selectedRows.size === data.length && data.length > 0}
SelectAllChecked == Cardinality(selectedRows) = Len(data) /\ Len(data) > 0

----------------------------------------------------------------------------
(* Cell values and the render tree *)

\* JS values a cell can hold, tagged by typeof
JsUndefined == [t |-> "undefined", n |-> 0, s |-> ""]

JsNull == [t |-> "null", n |-> 0, s |-> ""]

JsNumber(n) == [t |-> "number", n |-> n, s |-> ""]

JsString(str) == [t |-> "string", n |-> 0, s |-> str]

JsBoolean(b) == [t |-> "boolean", n |-> IF b THEN 1 ELSE 0, s |-> ""]

JsValues ==
    {JsUndefined, JsNull, JsNumber(0), JsNumber(7), JsString(""), JsString("A"),
     JsBoolean(FALSE)}

Digits == <<"0", "1", "2", "3", "4", "5", "6", "7", "8", "9">>

\* truthiness, as the operand of `||`
Truthy(v) ==
    CASE v.t = "number"  -> v.n # 0
      [] v.t = "string"  -> v.s # ""
      [] v.t = "boolean" -> v.n = 1
      [] OTHER           -> FALSE

\* String(v)
StringOf(v) ==
    CASE v.t = "number"    -> Digits[v.n + 1]
      [] v.t = "string"    -> v.s
      [] v.t = "boolean"   -> (IF v.n = 1 THEN "true" ELSE "false")
      [] v.t = "null"      -> "null"
      [] v.t = "undefined" -> "undefined"

\* row[column.key] as a JS value
valueOf(row, key) ==
    IF key \notin DOMAIN row THEN JsUndefined
    ELSE IF key = "id" THEN JsNumber(row.id)
    ELSE IF key = "stock" THEN row.stock
    ELSE JsString(row[key])

defaultCellNullish(v) ==
    IF v.t \in {"null", "undefined"} THEN "" ELSE StringOf(v)

\* String(row[column.key] || '')
defaultCell(v) == IF Truthy(v) THEN StringOf(v) ELSE StringOf(JsString(""))

\* column.render ? column.render(row[column.key], row) : String(... || '')
Cell(row, column) ==
    IF column.render
    THEN [by |-> "render", value |-> valueOf(row, column.key), row |-> row]
    ELSE [by |-> "String", text |-> defaultCell(valueOf(row, column.key))]

emptyMessageOrDefault ==
    IF emptyMessage.given /\ emptyMessage.text # "" THEN emptyMessage.text
    ELSE "No data available"

\* emptyMessage = 'No data available' (default parameter value)
emptyMessageShown ==
    IF emptyMessage.given THEN emptyMessage.text ELSE "No data available"

\* what the component returns for the columns `cols`
Rendered(cols) ==
    IF RenderState = "loading"
    THEN [kind |-> "loading",
          placeholders |-> [i \in 1..SkeletonRows |-> "skeleton"]]
    ELSE IF RenderState = "empty"
    THEN [kind |-> "empty", message |-> emptyMessageShown]
    ELSE [kind |-> "populated",
          selectAll |-> IF selectable THEN <<SelectAllChecked>> ELSE <<>>,
          header |-> [c \in 1..Len(cols) |-> cols[c].key],
          rows |-> [i \in 1..Len(sortedData) |->
                      [checkbox |-> IF selectable THEN <<RowChecked(i - 1)>> ELSE <<>>,
                       cells |-> [c \in 1..Len(cols) |-> Cell(sortedData[i], cols[c])]]]]

\* the columns of the cell-rendering specification: one with a custom
\* renderer, one over arbitrary values, one whose key no row has
cellColumns ==
    << [key |-> "id",      sortable |-> TRUE,  render |-> FALSE],
       [key |-> "name",    sortable |-> TRUE,  render |-> TRUE],
       [key |-> "stock",   sortable |-> FALSE, render |-> FALSE],
       [key |-> "missing", sortable |-> TRUE,  render |-> FALSE] >>

CellRows == [id : 1..MaxCells, name : Names, role : {"User"}, stock : JsValues]

\* rows in any order of their ids
CellData ==
    {d \in UNION {[1..k -> CellRows] : k \in 0..MaxCells} : DistinctIds(d)}

EmptyMessages ==
    {NotGiven, [given |-> TRUE, text |-> ""], [given |-> TRUE, text |-> "No users found"]}

----------------------------------------------------------------------------
(* Selection tracker *)

allIndicesOneBased(d) == 1..Len(d)

\* new Set(data.map((_, index) => index))
allIndices(d) == 0..(Len(d) - 1)

RECURSIVE filterSelectedReversed(_, _)
filterSelectedReversed(d, sel) ==
    IF d = <<>> THEN <<>>
    ELSE IF (Len(d) - 1) \in sel
         THEN <<Last(d)>> \o filterSelectedReversed(Front(d), sel)
         ELSE filterSelectedReversed(Front(d), sel)

\* data.filter((_, i) => newSelectedRows.has(i))
RECURSIVE filterSelected(_, _)
filterSelected(d, sel) ==
    IF d = <<>> THEN <<>>
    ELSE IF (Len(d) - 1) \in sel
         THEN Append(filterSelected(Front(d), sel), Last(d))
         ELSE filterSelected(Front(d), sel)

ReportTwice(payload) ==
    IF hasOnRowSelect
    THEN /\ delivered' = <<payload, payload>>
         /\ selectedUsers' = payload
    ELSE /\ delivered' = <<>>
         /\ UNCHANGED selectedUsers

ReportUnguarded(payload) ==
    /\ delivered' = <<payload>>
    /\ selectedUsers' = payload

\* onRowSelect?.(payload): the host's callback stores the payload
Report(payload) ==
    IF hasOnRowSelect
    THEN /\ delivered' = <<payload>>
         /\ selectedUsers' = payload
    ELSE /\ delivered' = <<>>
         /\ UNCHANGED selectedUsers

----------------------------------------------------------------------------
(* Initial state: a freshly mounted table *)

Init ==
    /\ data \in HostData
    /\ loading \in BOOLEAN
    /\ selectable \in BOOLEAN
    /\ hasOnRowSelect \in BOOLEAN
    /\ selectedRows = {}
    /\ sortConfig = [key |-> NoKey, direction |-> "asc"]
    /\ selectedUsers = <<>>
    /\ delivered = <<>>
    /\ lastEvent = [op |-> "mount"]
    /\ toggled = [tracked |-> TRUE, P |-> {}]
    /\ emptyMessage = NotGiven
    /\ pending = <<>>
    /\ other = NotMounted
    /\ field = NoField

----------------------------------------------------------------------------
(* Interactions *)

HeaderClickNoGuard(column) ==
    /\ RenderState = "populated"
    /\ sortConfig' = handleSortUpdater(sortConfig, column.key)
    /\ lastEvent' = [op |-> IF column.sortable THEN "sort" ELSE "headerNoSort",
                     key |-> column.key]
    /\ data' = dataAfterSort(data, sortConfig')
    /\ delivered' = <<>>
    /\ UNCHANGED <<loading, selectable, hasOnRowSelect, selectedRows,
                   selectedUsers, toggled>>
    /\ UNCHANGED rest

\* onClick={() => column.sortable && handleSort(column.key)}
\* `column` is the descriptor of the clicked header
HeaderClick(column) ==
    /\ RenderState = "populated"
    /\ IF column.sortable
       THEN /\ sortConfig' = handleSortUpdater(sortConfig, column.key)
            /\ lastEvent' = [op |-> "sort", key |-> column.key]
       ELSE /\ UNCHANGED sortConfig
            /\ lastEvent' = [op |-> "headerNoSort", key |-> column.key]
    /\ data' = dataAfterSort(data, sortConfig')
    /\ delivered' = <<>>
    /\ UNCHANGED <<loading, selectable, hasOnRowSelect, selectedRows,
                   selectedUsers, toggled>>
    /\ UNCHANGED rest

handleSelectAll(checked) ==
    /\ RenderState = "populated"
    /\ selectable
    /\ IF checked
       THEN /\ selectedRows' = allIndices(data)
            /\ Report(data)
            /\ toggled' = Untracked
       ELSE /\ selectedRows' = {}
            /\ Report(<<>>)
            /\ toggled' = [tracked |-> TRUE, P |-> {}]
    /\ lastEvent' = [op |-> "selectAll", checked |-> checked]
    /\ UNCHANGED <<data, loading, selectable, hasOnRowSelect, sortConfig>>
    /\ UNCHANGED rest

handleSelectRowPatching(index, checked) ==
    /\ RenderState = "populated"
    /\ selectable
    /\ index \in DisplayIndices
    /\ LET newSelectedRows == IF checked THEN selectedRows \cup {index}
                              ELSE selectedRows \ {index}
           patched == IF checked
                      THEN Append(selectedUsers, data[index + 1])
                      ELSE SelectSeq(selectedUsers, LAMBDA r : r # data[index + 1])
       IN /\ selectedRows' = newSelectedRows
          /\ Report(patched)
          /\ toggled' = IF ~toggled.tracked \/ ~checked THEN Untracked
                        ELSE [tracked |-> TRUE, P |-> toggled.P \cup {index}]
    /\ lastEvent' = [op |-> "selectRow", index |-> index, checked |-> checked,
                     row |-> sortedData[index + 1],
                     afterReplace |-> (lastEvent.op \in {"replaceData", "deleteSelected"}
                                       /\ lastEvent.afterSelectRow)]
    /\ UNCHANGED <<data, loading, selectable, hasOnRowSelect, sortConfig>>
    /\ UNCHANGED rest

\* onChange={(e) => handleSelectRow(index, e.target.checked)} on the checkbox
\* of the row displayed at `index`
handleSelectRow(index, checked) ==
    /\ RenderState = "populated"
    /\ selectable
    /\ index \in DisplayIndices
    /\ LET newSelectedRows == IF checked THEN selectedRows \cup {index}
                              ELSE selectedRows \ {index}
           selectedData == filterSelected(data, newSelectedRows)
       IN /\ selectedRows' = newSelectedRows
          /\ Report(selectedData)
          /\ toggled' = IF ~toggled.tracked \/ ~checked THEN Untracked
                        ELSE [tracked |-> TRUE, P |-> toggled.P \cup {index}]
    /\ lastEvent' = [op |-> "selectRow", index |-> index, checked |-> checked,
                     row |-> sortedData[index + 1],
                     afterReplace |-> (lastEvent.op \in {"replaceData", "deleteSelected"}
                                       /\ lastEvent.afterSelectRow)]
    /\ UNCHANGED <<data, loading, selectable, hasOnRowSelect, sortConfig>>
    /\ UNCHANGED rest

----------------------------------------------------------------------------
(* Host steps *)

ReplaceDataClearing(d) ==
    /\ d # data
    /\ data' = dataAfterSort(d, sortConfig)
    /\ delivered' = <<>>
    /\ lastEvent' = [op |-> "replaceData",
                     afterSelectRow |-> (lastEvent.op = "selectRow")]
    /\ toggled' = Untracked
    /\ selectedRows' = IF Len(d) = Len(data) THEN selectedRows ELSE {}
    /\ UNCHANGED <<loading, selectable, hasOnRowSelect, sortConfig, selectedUsers>>
    /\ UNCHANGED rest

\* the host re-renders the table with another `data` prop
ReplaceData(d) ==
    /\ d # data
    /\ data' = dataAfterSort(d, sortConfig)
    /\ delivered' = <<>>
    /\ lastEvent' = [op |-> "replaceData",
                     afterSelectRow |-> (lastEvent.op = "selectRow")]
    /\ toggled' = Untracked
    /\ UNCHANGED <<loading, selectable, hasOnRowSelect, selectedRows, sortConfig,
                   selectedUsers>>
    /\ UNCHANGED rest

\* InteractiveExample.handleDeleteSelected; its button is rendered only while
\* selectedUsers is non-empty
handleDeleteSelected ==
    /\ Len(selectedUsers) > 0
    /\ LET selectedIds == {selectedUsers[i].id : i \in 1..Len(selectedUsers)}
       IN data' = dataAfterSort(SelectSeq(data, LAMBDA user : user.id \notin selectedIds),
                                sortConfig)
    /\ selectedUsers' = <<>>
    /\ delivered' = <<>>
    /\ lastEvent' = [op |-> "deleteSelected",
                     afterSelectRow |-> (lastEvent.op = "selectRow")]
    /\ toggled' = Untracked
    /\ UNCHANGED <<loading, selectable, hasOnRowSelect, selectedRows, sortConfig>>
    /\ UNCHANGED rest

\* the host flips the `loading` prop (Loading story, argTypes.loading)
SetLoading(flag) ==
    /\ flag # loading
    /\ loading' = flag
    /\ delivered' = <<>>
    /\ lastEvent' = [op |-> "setLoading"]
    /\ UNCHANGED <<data, selectable, hasOnRowSelect, selectedRows, sortConfig,
                   selectedUsers, toggled>>
    /\ UNCHANGED rest

\* the host passes another `emptyMessage` (argTypes.emptyMessage)
SetEmptyMessage(m) ==
    /\ m # emptyMessage
    /\ emptyMessage' = m
    /\ delivered' = <<>>
    /\ lastEvent' = [op |-> "setEmptyMessage"]
    /\ UNCHANGED <<data, loading, selectable, hasOnRowSelect, selectedRows, sortConfig,
                   selectedUsers, toggled, pending, other, field>>

Next ==
    \/ \E c \in 1..Len(columns) : HeaderClick(columns[c])
    \/ handleSelectAll(~SelectAllChecked)
    \/ \E index \in 0..(MaxRows - 1) : handleSelectRow(index, ~RowChecked(index))
    \/ \E d \in HostData : ReplaceData(d)
    \/ handleDeleteSelected
    \/ \E flag \in BOOLEAN : SetLoading(flag)

Spec == Init /\ [][Next]_vars

----------------------------------------------------------------------------
(* Two instances on one page (ComplexExample): the users table is the       *)
(* instance held in the variables above, the products table is the record   *)
(* `other`; each has its own useState cells and its own callback            *)

\* the first MaxRows sample users, in the order the story lists them
usersInOrder == [i \in 1..MaxRows |-> SampleRow(i)]

\* product rows: "Laptop" sorts before "Mouse"
sampleProducts ==
    << [id |-> 1, name |-> "A", category |-> "Electronics"],
       [id |-> 2, name |-> "B", category |-> "Electronics"] >>

productColumns ==
    << [key |-> "name",     sortable |-> TRUE, render |-> FALSE],
       [key |-> "category", sortable |-> TRUE, render |-> FALSE] >>

\* a table instance right after mounting: the useState initial values
FreshInstance(d) ==
    [mounted |-> TRUE, data |-> d, selectedRows |-> {},
     sortConfig |-> [key |-> NoKey, direction |-> "asc"],
     selectedProducts |-> <<>>]

OtherSortedData == sortedDataOf(other.data, other.sortConfig)

OtherRowChecked(index) == index \in other.selectedRows

OtherSelectAllChecked ==
    Cardinality(other.selectedRows) = Len(other.data) /\ Len(other.data) > 0

\* what a step of the products table leaves alone: every prop and state cell
\* of the users table and its host state
usersTable == <<data, loading, selectable, hasOnRowSelect, selectedRows, sortConfig,
                selectedUsers, toggled, emptyMessage, pending, field>>

\* header click on the products table
OtherHeaderClick(column) ==
    /\ other.mounted
    /\ Len(other.data) > 0
    /\ IF column.sortable
       THEN other' = [other EXCEPT !.sortConfig = handleSortUpdater(@, column.key)]
       ELSE UNCHANGED other
    /\ lastEvent' = [op |-> "other.sort", key |-> column.key, delivered |-> <<>>]
    /\ delivered' = <<>>
    /\ UNCHANGED usersTable

\* select-all checkbox of the products table; onRowSelect={setSelectedProducts}
OtherSelectAll(checked) ==
    /\ other.mounted
    /\ Len(other.data) > 0
    /\ LET newSelectedRows == IF checked THEN allIndices(other.data) ELSE {}
           payload == IF checked THEN other.data ELSE <<>>
       IN /\ other' = [other EXCEPT !.selectedRows = newSelectedRows,
                                    !.selectedProducts = payload]
          /\ lastEvent' = [op |-> "other.selectAll", checked |-> checked,
                           delivered |-> <<payload>>]
    /\ delivered' = <<>>
    /\ UNCHANGED usersTable

OtherSelectRowShared(index, checked) ==
    /\ other.mounted
    /\ Len(other.data) > 0
    /\ index \in 0..(Len(OtherSortedData) - 1)
    /\ LET newSelectedRows == IF checked THEN selectedRows \cup {index}
                              ELSE selectedRows \ {index}
           selectedData == filterSelected(other.data, newSelectedRows)
       IN /\ other' = [other EXCEPT !.selectedRows = newSelectedRows,
                                    !.selectedProducts = selectedData]
          /\ selectedRows' = newSelectedRows
          /\ lastEvent' = [op |-> "other.selectRow", index |-> index,
                           checked |-> checked, delivered |-> <<selectedData>>]
    /\ delivered' = <<>>
    /\ UNCHANGED <<data, loading, selectable, hasOnRowSelect, sortConfig,
                   selectedUsers, toggled, emptyMessage, pending, field>>

\* row checkbox of the products table
OtherSelectRow(index, checked) ==
    /\ other.mounted
    /\ Len(other.data) > 0
    /\ index \in 0..(Len(OtherSortedData) - 1)
    /\ LET newSelectedRows == IF checked THEN other.selectedRows \cup {index}
                              ELSE other.selectedRows \ {index}
           selectedData == filterSelected(other.data, newSelectedRows)
       IN /\ other' = [other EXCEPT !.selectedRows = newSelectedRows,
                                    !.selectedProducts = selectedData]
          /\ lastEvent' = [op |-> "other.selectRow", index |-> index,
                           checked |-> checked, delivered |-> <<selectedData>>]
    /\ delivered' = <<>>
    /\ UNCHANGED usersTable

\* the users table is unmounted and mounted again: its useState cells are
\* created anew from their initial values; the host's selectedUsers lives in
\* the parent and stays
Remount ==
    /\ sortConfig.key # NoKey \/ selectedRows # {}
    /\ selectedRows' = {}
    /\ sortConfig' = [key |-> NoKey, direction |-> "asc"]
    /\ toggled' = [tracked |-> TRUE, P |-> {}]
    /\ delivered' = <<>>
    /\ lastEvent' = [op |-> "remount"]
    /\ UNCHANGED <<data, loading, selectable, hasOnRowSelect, selectedUsers>>
    /\ UNCHANGED rest

\* the same for the products table
OtherRemount ==
    /\ other.mounted
    /\ other.sortConfig.key # NoKey \/ other.selectedRows # {}
    /\ other' = [FreshInstance(other.data) EXCEPT
                    !.selectedProducts = other.selectedProducts]
    /\ delivered' = <<>>
    /\ lastEvent' = [op |-> "other.remount", delivered |-> <<>>]
    /\ UNCHANGED usersTable

TwoInit ==
    /\ data = usersInOrder
    /\ loading = FALSE
    /\ selectable = TRUE
    /\ hasOnRowSelect = TRUE
    /\ selectedRows = {}
    /\ sortConfig = [key |-> NoKey, direction |-> "asc"]
    /\ selectedUsers = <<>>
    /\ delivered = <<>>
    /\ lastEvent = [op |-> "mount"]
    /\ toggled = [tracked |-> TRUE, P |-> {}]
    /\ emptyMessage = NotGiven
    /\ pending = <<>>
    /\ other = FreshInstance(sampleProducts)
    /\ field = NoField

TwoNext ==
    \/ \E c \in 1..Len(columns) : HeaderClick(columns[c])
    \/ handleSelectAll(~SelectAllChecked)
    \/ \E index \in 0..(MaxRows - 1) : handleSelectRow(index, ~RowChecked(index))
    \/ Remount
    \/ \E c \in 1..Len(productColumns) : OtherHeaderClick(productColumns[c])
    \/ OtherSelectAll(~OtherSelectAllChecked)
    \/ \E index \in 0..(Len(sampleProducts) - 1) :
           OtherSelectRow(index, ~OtherRowChecked(index))
    \/ OtherRemount

TwoSpec == TwoInit /\ [][TwoNext]_vars

----------------------------------------------------------------------------
(* Handlers that run in one batch: React queues the state updates a handler *)
(* requests and applies them at the next render, so a handler that runs     *)
(* before that render still closes over the state of the last render        *)

\* most updates queued between two renders
MaxPending == 2

\* setSelectedRows(newSelectedRows): an update that replaces the value
SetValue(newSelectedRows) == [cell |-> "selectedRows", value |-> newSelectedRows]

\* setSortConfig(prev => ...): an update computed from the queued value
SetByUpdater(key) == [cell |-> "sortConfig", key |-> key]

\* the state cells after React has processed a queue of updates in order
RECURSIVE ApplyUpdates(_, _)
ApplyUpdates(queue, cells) ==
    IF queue = <<>> THEN cells
    ELSE LET before == ApplyUpdates(Front(queue), cells)
             u == Last(queue)
         IN IF u.cell = "selectedRows"
            THEN [before EXCEPT !.selectedRows = u.value]
            ELSE [before EXCEPT !.sortConfig = handleSortUpdater(@, u.key)]

RenderedCells == [selectedRows |-> selectedRows, sortConfig |-> sortConfig]

\* handleSelectRow run before the render of an earlier update: `selectedRows`
\* is the value of the last render
BatchedSelectRow(index, checked) ==
    /\ RenderState = "populated"
    /\ selectable
    /\ index \in DisplayIndices
    /\ Len(pending) < MaxPending
    /\ LET newSelectedRows == IF checked THEN selectedRows \cup {index}
                              ELSE selectedRows \ {index}
           selectedData == filterSelected(data, newSelectedRows)
       IN /\ pending' = Append(pending, SetValue(newSelectedRows))
          /\ Report(selectedData)
    /\ lastEvent' = [op |-> "selectRow", index |-> index, checked |-> checked,
                     row |-> sortedData[index + 1], afterReplace |-> FALSE]
    /\ UNCHANGED <<data, loading, selectable, hasOnRowSelect, selectedRows,
                   sortConfig, toggled, emptyMessage, other, field>>

\* header click run before the render of an earlier update
BatchedHeaderClick(column) ==
    /\ RenderState = "populated"
    /\ Len(pending) < MaxPending
    /\ IF column.sortable
       THEN /\ pending' = Append(pending, SetByUpdater(column.key))
            /\ lastEvent' = [op |-> "sort", key |-> column.key]
       ELSE /\ UNCHANGED pending
            /\ lastEvent' = [op |-> "headerNoSort", key |-> column.key]
    /\ delivered' = <<>>
    /\ UNCHANGED <<data, loading, selectable, hasOnRowSelect, selectedRows,
                   sortConfig, selectedUsers, toggled, emptyMessage, other,
                   field>>

\* React processes the queue and renders
Render ==
    /\ pending # <<>>
    /\ LET after == ApplyUpdates(pending, RenderedCells)
       IN /\ selectedRows' = after.selectedRows
          /\ sortConfig' = after.sortConfig
    /\ pending' = <<>>
    /\ delivered' = <<>>
    /\ lastEvent' = [op |-> "render"]
    /\ toggled' = Untracked
    /\ UNCHANGED <<data, loading, selectable, hasOnRowSelect, selectedUsers,
                   emptyMessage, other, field>>

BatchInit ==
    /\ data = usersInOrder
    /\ loading = FALSE
    /\ selectable = TRUE
    /\ hasOnRowSelect \in BOOLEAN
    /\ selectedRows = {}
    /\ sortConfig = [key |-> NoKey, direction |-> "asc"]
    /\ selectedUsers = <<>>
    /\ delivered = <<>>
    /\ lastEvent = [op |-> "mount"]
    /\ toggled = [tracked |-> TRUE, P |-> {}]
    /\ emptyMessage = NotGiven
    /\ pending = <<>>
    /\ other = NotMounted
    /\ field = NoField

BatchNext ==
    \/ \E index \in 0..(MaxRows - 1) : BatchedSelectRow(index, ~RowChecked(index))
    \/ \E c \in 1..Len(columns) : BatchedHeaderClick(columns[c])
    \/ Render

BatchSpec == BatchInit /\ [][BatchNext]_vars

----------------------------------------------------------------------------
(* The InputField component: its props, its two state cells, the trailing   *)
(* adornments it renders and the handlers behind them. The host is the      *)
(* stories' InputFieldWithState, which stores the value it is handed and    *)
(* lets the props be changed from the controls panel.                       *)

\* most clicks on the password toggle within one mounted lifetime
MaxClicks == 3

FieldValues == {"", "a"}

FieldTypes == {"text", "password", "email"}

\* the boolean props the controls panel can flip
FieldFlags == {"disabled", "loading", "clearable", "showPasswordToggle"}

\* a field right after mounting: any props, the useState initial values, and
\* no click on the toggle yet
FreshFields ==
    [mounted : {TRUE}, value : FieldValues, hasOnChange : BOOLEAN,
     type : FieldTypes, disabled : BOOLEAN, loading : BOOLEAN,
     clearable : BOOLEAN, showPasswordToggle : BOOLEAN,
     showPassword : {FALSE}, isFocused : {FALSE}, clicks : {0}]

inputTypeIgnoringToggleProp(f) ==
    IF f.type = "password"
    THEN (IF f.showPassword THEN "text" ELSE "password")
    ELSE f.type

\* const inputType = type === 'password' && showPasswordToggle ? ... : type
inputType(f) ==
    IF f.type = "password" /\ f.showPasswordToggle
    THEN (IF f.showPassword THEN "text" ELSE "password")
    ELSE f.type

\* disabled={disabled || loading} on the input element
InputDisabled(f) == f.disabled \/ f.loading

\* {loading && (...)}
SpinnerRendered(f) == f.loading

ClearRenderedIgnoringDisabled(f) ==
    f.clearable /\ f.value # "" /\ ~f.loading

\* {clearable && value && !loading && !disabled && (...)}: a string is truthy
\* when it is not empty
ClearRendered(f) ==
    f.clearable /\ f.value # "" /\ ~f.loading /\ ~f.disabled

\* {showPasswordToggle && type === 'password' && !loading && !disabled && (...)}
ToggleRendered(f) ==
    f.showPasswordToggle /\ f.type = "password" /\ ~f.loading /\ ~f.disabled

\* the adornments rendered at `absolute right-3 top-1/2`
Adornments(f) ==
    {a \in {"spinner", "clear", "toggle"} :
        \/ a = "spinner" /\ SpinnerRendered(f)
        \/ a = "clear" /\ ClearRendered(f)
        \/ a = "toggle" /\ ToggleRendered(f)}

\* the event object handed to onChange
ChangeEvent(v) == [target |-> [value |-> v]]

\* what a step on the field leaves alone: the table
tableVars == <<data, loading, selectable, hasOnRowSelect, selectedRows, sortConfig,
               selectedUsers, toggled, emptyMessage, pending, other>>

\* click on the clear button; the host's onChange stores e.target.value
handleClear ==
    /\ field.mounted
    /\ ClearRendered(field)
    /\ IF field.hasOnChange
       THEN /\ delivered' = <<ChangeEvent("")>>
            /\ field' = [field EXCEPT !.value = ChangeEvent("").target.value]
       ELSE /\ delivered' = <<>>
            /\ UNCHANGED field
    /\ lastEvent' = [op |-> "clear"]
    /\ UNCHANGED tableVars

\* click on the password toggle: setShowPassword(!showPassword)
handlePasswordToggle ==
    /\ field.mounted
    /\ ToggleRendered(field)
    /\ field.clicks < MaxClicks
    /\ field' = [field EXCEPT !.showPassword = ~field.showPassword,
                              !.clicks = @ + 1]
    /\ delivered' = <<>>
    /\ lastEvent' = [op |-> "passwordToggle"]
    /\ UNCHANGED tableVars

\* the user edits the text: onChange={onChange} on the input element
TypeText(v) ==
    /\ field.mounted
    /\ ~InputDisabled(field)
    /\ field.hasOnChange
    /\ v # field.value
    /\ delivered' = <<ChangeEvent(v)>>
    /\ field' = [field EXCEPT !.value = ChangeEvent(v).target.value]
    /\ lastEvent' = [op |-> "type"]
    /\ UNCHANGED tableVars

\* onFocus={() => setIsFocused(true)} / onBlur={() => setIsFocused(false)}
SetIsFocused(flag) ==
    /\ field.mounted
    /\ flag # field.isFocused
    /\ flag => ~InputDisabled(field)
    /\ field' = [field EXCEPT !.isFocused = flag]
    /\ delivered' = <<>>
    /\ lastEvent' = [op |-> "focus"]
    /\ UNCHANGED tableVars

\* the host passes another value for a boolean prop
SetFieldFlag(name, flag) ==
    /\ field.mounted
    /\ field[name] # flag
    /\ field' = [field EXCEPT ![name] = flag]
    /\ delivered' = <<>>
    /\ lastEvent' = [op |-> "setProp", prop |-> name]
    /\ UNCHANGED tableVars

\* the host passes another `type`
SetFieldType(t) ==
    /\ field.mounted
    /\ field.type # t
    /\ field' = [field EXCEPT !.type = t]
    /\ delivered' = <<>>
    /\ lastEvent' = [op |-> "setProp", prop |-> "type"]
    /\ UNCHANGED tableVars

InputInit ==
    /\ data = <<>>
    /\ loading = FALSE
    /\ selectable = FALSE
    /\ hasOnRowSelect = FALSE
    /\ selectedRows = {}
    /\ sortConfig = [key |-> NoKey, direction |-> "asc"]
    /\ selectedUsers = <<>>
    /\ delivered = <<>>
    /\ lastEvent = [op |-> "mount"]
    /\ toggled = [tracked |-> TRUE, P |-> {}]
    /\ emptyMessage = NotGiven
    /\ pending = <<>>
    /\ other = NotMounted
    /\ field \in FreshFields

InputNext ==
    \/ handleClear
    \/ handlePasswordToggle
    \/ \E v \in FieldValues : TypeText(v)
    \/ \E flag \in BOOLEAN : SetIsFocused(flag)
    \/ \E name \in FieldFlags, flag \in BOOLEAN : SetFieldFlag(name, flag)
    \/ \E t \in FieldTypes : SetFieldType(t)

InputSpec == InputInit /\ [][InputNext]_vars

----------------------------------------------------------------------------
(* The sort engine alone, over every input within the bounds: a mounted,   *)
(* populated or empty table whose headers are clicked                      *)

SortInit ==
    /\ data \in AllData
    /\ loading = FALSE
    /\ selectable = FALSE
    /\ hasOnRowSelect = FALSE
    /\ selectedRows = {}
    /\ sortConfig = [key |-> NoKey, direction |-> "asc"]
    /\ selectedUsers = <<>>
    /\ delivered = <<>>
    /\ lastEvent = [op |-> "mount"]
    /\ toggled = [tracked |-> TRUE, P |-> {}]
    /\ emptyMessage = NotGiven
    /\ pending = <<>>
    /\ other = NotMounted
    /\ field = NoField

SortNext == \E c \in 1..Len(columns) : HeaderClick(columns[c])

SortSpec == SortInit /\ [][SortNext]_vars

----------------------------------------------------------------------------
(* Cell rendering and the three render states, over rows that hold every    *)
(* kind of value, with and without an empty message                         *)

CellInit ==
    /\ data \in CellData
    /\ loading \in BOOLEAN
    /\ selectable \in BOOLEAN
    /\ hasOnRowSelect = FALSE
    /\ selectedRows = {}
    /\ sortConfig = [key |-> NoKey, direction |-> "asc"]
    /\ selectedUsers = <<>>
    /\ delivered = <<>>
    /\ lastEvent = [op |-> "mount"]
    /\ toggled = [tracked |-> TRUE, P |-> {}]
    /\ emptyMessage \in EmptyMessages
    /\ pending = <<>>
    /\ other = NotMounted
    /\ field = NoField

CellNext ==
    \/ \E c \in 1..Len(cellColumns) : HeaderClick(cellColumns[c])
    \/ \E flag \in BOOLEAN : SetLoading(flag)
    \/ \E m \in EmptyMessages : SetEmptyMessage(m)

CellSpec == CellInit /\ [][CellNext]_vars

----------------------------------------------------------------------------
(* Vocabulary of the properties *)

SelectionOps == {"selectAll", "selectRow"}

\* the 1-based place of row r in sequence d (rows of a data sequence are distinct)
PlaceIn(d, r) == CHOOSE k \in 1..Len(d) : d[k] = r

\* the rows of d at the positions of P, in ascending position order
RowsAt(d, P) ==
    LET valid == {p \in P : p >= 0 /\ p < Len(d)}
        nth(i) == CHOOSE p \in valid : Cardinality({q \in valid : q < p}) = i - 1
    IN [i \in 1..Cardinality(valid) |-> d[nth(i) + 1]]

Reverse(s) == [i \in 1..Len(s) |-> s[Len(s) + 1 - i]]

Occurrences(s, r) == Cardinality({i \in 1..Len(s) : s[i] = r})

IsPermutation(s, d) ==
    /\ Len(s) = Len(d)
    /\ \A r \in Range(s) \cup Range(d) : Occurrences(s, r) = Occurrences(d, r)

DistinctValues(d, key) ==
    \A i, j \in 1..Len(d) : i # j => d[i][key] # d[j][key]

HasTies(d, key) ==
    \E i, j \in 1..Len(d) : i # j /\ d[i][key] = d[j][key]

ExpectedSortConfig(cfg, K) ==
    CASE cfg.key = K /\ cfg.direction = "asc"  -> [key |-> K, direction |-> "desc"]
      [] cfg.key = K /\ cfg.direction = "desc" -> [key |-> K, direction |-> "asc"]
      [] OTHER                                 -> [key |-> K, direction |-> "asc"]

----------------------------------------------------------------------------
(* Properties *)

\* C1: the position the checkbox of a displayed row passes to selectRow is that
\* row's position in the input data, so checking the checkbox of displayed row r
\* marks r itself and the payload reported to the callback contains r.
C1_CheckboxSelectsDisplayedRow ==
    lastEvent.op = "selectRow" =>
        /\ data[lastEvent.index + 1] = lastEvent.row
        /\ (lastEvent.checked /\ hasOnRowSelect) =>
               lastEvent.row \in Range(delivered[1])

\* C2: in every reachable state, also after the host replaced the data by a
\* sequence of another length, every element of the selection set is a valid
\* position of the current data.
C2_SelectionWithinData ==
    \A p \in selectedRows : 0 <= p /\ p < Len(data)

\* C3: starting from an empty selection, after selectRow(p, true) for each p of
\* a set P, in any order and under any sort configuration, the last payload is
\* the rows of the data at the positions of P in ascending position order.
C3_TogglePayloadAscending ==
    (lastEvent.op = "selectRow" /\ toggled.tracked /\ hasOnRowSelect) =>
        /\ selectedRows = toggled.P
        /\ delivered = << RowsAt(data, toggled.P) >>
        /\ selectedUsers = RowsAt(data, toggled.P)

C3_Witness ==
    /\ lastEvent.op = "selectRow"
    /\ toggled.tracked
    /\ hasOnRowSelect
    /\ Cardinality(toggled.P) >= 2
    /\ \E p \in toggled.P : p > lastEvent.index
    /\ sortConfig.key # NoKey
    /\ sortedData # data

\* C4: selectAll(true) sets the selection set to {0..N-1} and reports the whole
\* data in input order; selectAll(false) empties the set and reports the empty
\* sequence; whatever the prior selection and the sort configuration.
C4_SelectAllContract ==
    lastEvent.op = "selectAll" =>
        IF lastEvent.checked
        THEN /\ selectedRows = 0..(Len(data) - 1)
             /\ hasOnRowSelect => delivered = << data >>
        ELSE /\ selectedRows = {}
             /\ hasOnRowSelect => delivered = << <<>> >>

C4_Witness ==
    /\ lastEvent.op = "selectAll"
    /\ lastEvent.checked
    /\ hasOnRowSelect
    /\ sortConfig.key # NoKey
    /\ sortedData # data
    /\ Len(data) >= 2

\* C5: every payload selectRow passes to the callback is the data current at the
\* call filtered by the selection set the call leaves; after the host replaced
\* the data it holds rows of the new data only.
C5_PayloadFromCurrentData ==
    (lastEvent.op = "selectRow" /\ hasOnRowSelect) =>
        /\ delivered = << RowsAt(data, selectedRows) >>
        /\ Range(delivered[1]) \subseteq Range(data)

C5_Witness ==
    /\ lastEvent.op = "selectRow"
    /\ lastEvent.afterReplace
    /\ hasOnRowSelect
    /\ Len(delivered[1]) >= 2

\* C6: every selectAll or selectRow interaction invokes the callback exactly
\* once, within its own step, and no other step invokes it; the host holds the
\* payload of the latest call.
C6_OneCallPerSelection ==
    hasOnRowSelect =>
        /\ Len(delivered) = (IF lastEvent.op \in SelectionOps THEN 1 ELSE 0)
        /\ Len(delivered) > 0 => selectedUsers = delivered[Len(delivered)]

C6_Witness ==
    /\ hasOnRowSelect
    /\ lastEvent.op = "selectAll"
    /\ ~lastEvent.checked
    /\ delivered = << <<>> >>

\* C7: a click on the header of sortable column K takes (K, asc) to (K, desc),
\* (K, desc) to (K, asc) and any other configuration to (K, asc); the sort
\* configuration changes in no other way.
C7_SortTransitions ==
    [][ /\ lastEvent'.op = "sort" =>
              sortConfig' = ExpectedSortConfig(sortConfig, lastEvent'.key)
        /\ sortConfig' # sortConfig =>
              /\ lastEvent'.op = "sort"
              /\ \E c \in 1..Len(columns) :
                    columns[c].sortable /\ columns[c].key = lastEvent'.key
      ]_vars

C7_Witness ==
    /\ lastEvent.op = "sort"
    /\ sortConfig = [key |-> "name", direction |-> "desc"]

\* C8: under an active sort key, in both directions, two rows with equal key
\* values are displayed in the relative order they have in the input.
C8_TiesKeepInputOrder ==
    sortConfig.key # NoKey =>
        \A i, j \in 1..Len(sortedData) :
            (i < j /\ sortedData[i][sortConfig.key] = sortedData[j][sortConfig.key])
                => PlaceIn(data, sortedData[i]) < PlaceIn(data, sortedData[j])

C8_Witness ==
    /\ sortConfig = [key |-> "name", direction |-> "desc"]
    /\ HasTies(data, "name")
    /\ sortedData # data
    /\ lastEvent.op = "sort"

\* C9: when the values under the active key are pairwise distinct, the sequence
\* displayed for descending is the exact reverse of the one for ascending.
C9_DescendingIsReverse ==
    (sortConfig.key # NoKey /\ DistinctValues(data, sortConfig.key)) =>
        sortedDataOf(data, [key |-> sortConfig.key, direction |-> "desc"])
            = Reverse(sortedDataOf(data, [key |-> sortConfig.key, direction |-> "asc"]))

C9_Witness ==
    /\ sortConfig = [key |-> "id", direction |-> "desc"]
    /\ DistinctValues(data, "id")
    /\ Len(data) = MaxRows
    /\ sortedData # data
    /\ sortedData # Reverse(data)

\* C10: the sequence rendered in the populated state is the data itself when no
\* key is set, and otherwise a permutation of the data whose key values are
\* non-decreasing for ascending and non-increasing for descending.
C10_ReferenceSort ==
    RenderState = "populated" =>
        IF sortConfig.key = NoKey
        THEN sortedData = data
        ELSE /\ IsPermutation(sortedData, data)
             /\ \A i, j \in 1..Len(sortedData) :
                    i < j =>
                        IF sortConfig.direction = "asc"
                        THEN ~JsLess(sortConfig.key, sortedData[j][sortConfig.key],
                                                     sortedData[i][sortConfig.key])
                        ELSE ~JsLess(sortConfig.key, sortedData[i][sortConfig.key],
                                                     sortedData[j][sortConfig.key])

C10_Witness ==
    /\ RenderState = "populated"
    /\ sortConfig = [key |-> "name", direction |-> "asc"]
    /\ Len(data) = MaxRows
    /\ sortedData # data

InteractionOps == {"sort", "headerNoSort", "selectAll", "selectRow"}

\* C11: no sort, selection or render operation modifies the input data: a
\* header click or selection interaction leaves the caller's data sequence with
\* the same rows in the same order.
C11_InputNotMutated ==
    [][ lastEvent'.op \in InteractionOps => data' = data ]_vars

C11_Witness ==
    /\ lastEvent.op = "sort"
    /\ sortConfig.key # NoKey
    /\ sortedData # data
    /\ selectedRows # {}

\* C12: in every reachable state exactly one render state is produced and it
\* depends on (loading, data.length) alone: loading, with exactly 5 placeholder
\* rows, whenever the flag is set; empty when not loading and the data is
\* empty; populated otherwise.
C12_RenderStateDetermined ==
    LET tree == Rendered(columns)
    IN /\ tree.kind = (IF loading THEN "loading"
                       ELSE IF Len(data) = 0 THEN "empty"
                       ELSE "populated")
       /\ tree.kind = "loading" =>
              /\ DOMAIN tree = {"kind", "placeholders"}
              /\ Len(tree.placeholders) = 5
       /\ tree.kind = "empty" => DOMAIN tree = {"kind", "message"}
       /\ tree.kind = "populated" => Len(tree.rows) = Len(data)

C12_Witness ==
    /\ loading
    /\ Len(data) > 0
    /\ sortConfig.key # NoKey
    /\ selectedRows # {}
    /\ Rendered(columns).kind = "loading"

\* C13: when loading is false and the data is empty the rendered message is the
\* emptyMessage the caller supplied, or "No data available" when none was
\* supplied; no header, row or checkbox is rendered.
C13_EmptyMessage ==
    (~loading /\ Len(data) = 0) =>
        Rendered(cellColumns) =
            [kind |-> "empty",
             message |-> IF emptyMessage.given THEN emptyMessage.text
                         ELSE "No data available"]

C13_Witness ==
    /\ ~loading
    /\ Len(data) = 0
    /\ emptyMessage = [given |-> TRUE, text |-> ""]
    /\ lastEvent.op = "setEmptyMessage"

\* C14: a cell of a column with a custom renderer displays render(value, row);
\* a cell of a column without one displays the default string of the value for
\* every value that is not null or undefined (0, false and '' included) and the
\* empty string for null and undefined.
C14_CellDisplay ==
    RenderState = "populated" =>
        \A i \in 1..Len(sortedData), c \in 1..Len(cellColumns) :
            LET row == sortedData[i]
                column == cellColumns[c]
                value == valueOf(row, column.key)
                shown == Rendered(cellColumns).rows[i].cells[c]
            IN IF column.render
               THEN shown = [by |-> "render", value |-> value, row |-> row]
               ELSE shown = [by |-> "String",
                             text |-> IF value.t \in {"null", "undefined"} THEN ""
                                      ELSE StringOf(value)]

\* C17: for a column whose key no row has, every cell renders as the empty
\* string, and a click on its sortable header makes it the active key and
\* leaves the displayed order equal to the input order in both directions.
C17_AbsentKeyColumn ==
    /\ RenderState = "populated" =>
           \A i \in 1..Len(sortedData), c \in 1..Len(cellColumns) :
               cellColumns[c].key = "missing" =>
                   Rendered(cellColumns).rows[i].cells[c] = [by |-> "String", text |-> ""]
    /\ (lastEvent.op = "sort" /\ lastEvent.key = "missing") => sortConfig.key = "missing"
    /\ sortConfig.key = "missing" => sortedData = data

C17_Witness ==
    /\ lastEvent.op = "sort"
    /\ sortConfig = [key |-> "missing", direction |-> "desc"]
    /\ Len(data) = MaxCells
    /\ data[1].id > data[2].id
    /\ data[1].name # data[2].name

DataChangeOps == {"replaceData", "deleteSelected"}

\* C15: replacing the input data by any other sequence, of any length, leaves
\* the sort configuration and the selection set as they were and invokes no
\* callback.
C15_DataChangeKeepsState ==
    [][ lastEvent'.op \in DataChangeOps =>
            /\ sortConfig' = sortConfig
            /\ selectedRows' = selectedRows
            /\ delivered' = <<>>
      ]_vars

C15_Witness ==
    /\ lastEvent.op = "replaceData"
    /\ sortConfig.key # NoKey
    /\ \E p \in selectedRows : p >= Len(data)
    /\ Len(data) > 0

\* C16: without a selection callback selectAll and selectRow update the
\* selection set exactly as they do with one, and nothing is reported.
C16_NoCallbackSameSelection ==
    [][ lastEvent'.op \in SelectionOps =>
            /\ selectedRows' =
                  (IF lastEvent'.op = "selectAll"
                   THEN (IF lastEvent'.checked THEN 0..(Len(data) - 1) ELSE {})
                   ELSE (IF lastEvent'.checked
                         THEN selectedRows \cup {lastEvent'.index}
                         ELSE selectedRows \ {lastEvent'.index}))
            /\ ~hasOnRowSelect =>
                  (delivered' = <<>> /\ selectedUsers' = selectedUsers)
      ]_vars

C16_Witness ==
    /\ ~hasOnRowSelect
    /\ lastEvent.op = "selectRow"
    /\ lastEvent.checked
    /\ Cardinality(selectedRows) >= 2
    /\ delivered = <<>>

ScenarioData ==
    << [id |-> 1, name |-> "B", role |-> "User"],
       [id |-> 2, name |-> "A", role |-> "User"] >>

\* C18: with data [{id:1,name:"B"},{id:2,name:"A"}] the first click on the name
\* header displays [id:2, id:1], the second displays [id:1, id:2], and checking
\* the row then displayed at position 0 (id:1) reports exactly [{id:1,name:"B"}].
C18_Scenario ==
    [][ (data = ScenarioData /\ data' = ScenarioData) =>
            /\ (sortConfig.key = NoKey /\ lastEvent'.op = "sort"
                    /\ lastEvent'.key = "name") =>
                   /\ sortConfig' = [key |-> "name", direction |-> "asc"]
                   /\ sortedData' = <<ScenarioData[2], ScenarioData[1]>>
            /\ (sortConfig = [key |-> "name", direction |-> "asc"]
                    /\ lastEvent'.op = "sort" /\ lastEvent'.key = "name") =>
                   /\ sortConfig' = [key |-> "name", direction |-> "desc"]
                   /\ sortedData' = <<ScenarioData[1], ScenarioData[2]>>
            /\ (sortConfig = [key |-> "name", direction |-> "desc"]
                    /\ selectedRows = {} /\ hasOnRowSelect
                    /\ lastEvent'.op = "selectRow" /\ lastEvent'.index = 0) =>
                   /\ lastEvent'.row = ScenarioData[1]
                   /\ delivered' = << <<ScenarioData[1]>> >>
      ]_vars

C18_Witness ==
    /\ data = ScenarioData
    /\ sortConfig = [key |-> "name", direction |-> "desc"]
    /\ lastEvent.op = "selectRow"
    /\ lastEvent.index = 0
    /\ selectedRows = {0}
    /\ delivered = << <<ScenarioData[1]>> >>

OtherOps == {"other.sort", "other.selectAll", "other.selectRow"}

\* C19: with two table instances mounted, a sort or selection interaction on
\* one leaves the other's sort configuration and selection set unchanged and
\* invokes only the interacting instance's callback; remounting an instance
\* returns its sort configuration to (no key, ascending) and its selection set
\* to empty.
C19_InstancesIndependent ==
    [][ /\ lastEvent'.op \in InteractionOps =>
               /\ other'.sortConfig = other.sortConfig
               /\ other'.selectedRows = other.selectedRows
               /\ other'.selectedProducts = other.selectedProducts
        /\ lastEvent'.op \in OtherOps =>
               /\ sortConfig' = sortConfig
               /\ selectedRows' = selectedRows
               /\ delivered' = <<>>
               /\ selectedUsers' = selectedUsers
        /\ lastEvent'.op = "remount" =>
               /\ sortConfig' = [key |-> NoKey, direction |-> "asc"]
               /\ selectedRows' = {}
               /\ other' = other
        /\ lastEvent'.op = "other.remount" =>
               /\ other'.sortConfig = [key |-> NoKey, direction |-> "asc"]
               /\ other'.selectedRows = {}
               /\ sortConfig' = sortConfig
               /\ selectedRows' = selectedRows
      ]_vars

C19_Witness ==
    /\ other.mounted
    /\ lastEvent.op = "remount"
    /\ selectedRows = {}
    /\ sortConfig.key = NoKey
    /\ Len(selectedUsers) > 0
    /\ other.selectedRows # {}
    /\ other.sortConfig.key # NoKey
    /\ Len(other.selectedProducts) > 0

\* the positions toggled by the selection updates of a queue, in order
RECURSIVE ToggledPositions(_, _)
ToggledPositions(queue, sel) ==
    IF queue = <<>> THEN <<>>
    ELSE IF Last(queue).cell = "selectedRows"
         THEN Append(ToggledPositions(Front(queue), sel),
                     CHOOSE p \in 0..(MaxRows - 1) :
                         Last(queue).value \in {sel \cup {p}, sel \ {p}}
                         /\ Last(queue).value # sel)
         ELSE ToggledPositions(Front(queue), sel)

\* the selection set with every one of the given positions flipped
FlipAll(sel, positions) ==
    (sel \ Range(positions)) \cup (Range(positions) \ sel)

\* the header keys clicked by the sort updates of a queue, in order
RECURSIVE ClickedKeys(_)
ClickedKeys(queue) ==
    IF queue = <<>> THEN <<>>
    ELSE IF Last(queue).cell = "sortConfig"
         THEN Append(ClickedKeys(Front(queue)), Last(queue).key)
         ELSE ClickedKeys(Front(queue))

RECURSIVE AfterClicks(_, _)
AfterClicks(cfg, keys) ==
    IF keys = <<>> THEN cfg
    ELSE ExpectedSortConfig(AfterClicks(cfg, Front(keys)), Last(keys))

\* C20: toggles on different positions handled with no re-render between them
\* all take effect on the selection set and on the last payload, as header
\* clicks handled without an intervening re-render all take effect on the sort
\* configuration.
C20_NoLostUpdate ==
    LET positions == ToggledPositions(pending, selectedRows)
        expected == FlipAll(selectedRows, positions)
        after == ApplyUpdates(pending, RenderedCells)
    IN /\ after.sortConfig = AfterClicks(sortConfig, ClickedKeys(pending))
       /\ (Cardinality(Range(positions)) = Len(positions) /\ positions # <<>>) =>
              /\ after.selectedRows = expected
              /\ (lastEvent.op = "selectRow" /\ hasOnRowSelect) =>
                     delivered = << filterSelected(data, expected) >>

\* the table's props and state cells and the host's stored payload
tableState == <<data, loading, selectable, hasOnRowSelect, emptyMessage,
                selectedRows, sortConfig, selectedUsers>>

\* C21: a header click changes nothing but the sort configuration: on a column
\* that is not sortable no state changes at all, on a sortable column the
\* selection set stays and no selection callback is invoked.
C21_HeaderClickFrame ==
    [][ /\ lastEvent'.op = "headerNoSort" =>
               (tableState' = tableState /\ delivered' = <<>>)
        /\ lastEvent'.op = "sort" =>
               /\ selectedRows' = selectedRows
               /\ selectedUsers' = selectedUsers
               /\ delivered' = <<>>
               /\ <<data, loading, selectable, hasOnRowSelect, emptyMessage>>'
                      = <<data, loading, selectable, hasOnRowSelect, emptyMessage>>
      ]_vars

C21_Witness ==
    /\ lastEvent.op = "headerNoSort"
    /\ sortConfig.key # NoKey
    /\ selectedRows # {}
    /\ Len(selectedUsers) > 0

SortableKeys == {columns[c].key : c \in {i \in 1..Len(columns) : columns[i].sortable}}

SortConfigShape(cfg) ==
    \/ cfg = [key |-> NoKey, direction |-> "asc"]
    \/ /\ DOMAIN cfg = {"key", "direction"}
       /\ cfg.key \in SortableKeys
       /\ cfg.direction \in {"asc", "desc"}

\* C22: the sort configuration is always the initial (no key, ascending) or
\* (K, ascending or descending) with K the key of a sortable column, and once a
\* key is set no interaction or data change unsets it.
C22_SortConfigShape ==
    [][ /\ SortConfigShape(sortConfig)
        /\ SortConfigShape(sortConfig')
        /\ sortConfig.key # NoKey => sortConfig'.key # NoKey
      ]_vars

C22_Witness ==
    /\ sortConfig.key \in SortableKeys
    /\ sortConfig.direction = "asc"
    /\ lastEvent.op = "sort"
    /\ \E p \in selectedRows : p >= Len(data)

\* C25: in the populated selectable table, also after the data sequence has
\* been replaced, the select-all checkbox is shown checked if and only if every
\* position 0..N-1 of the current data is in the selection set and N > 0.
C25_SelectAllShownIffAllSelected ==
    (RenderState = "populated" /\ selectable) =>
        (SelectAllChecked <=>
            (Len(data) > 0 /\ (0..(Len(data) - 1)) \subseteq selectedRows))

\* C26: the payload the parent has stored equals the current data sequence
\* filtered by the current selection set, also after the parent has deleted the
\* selected rows or replaced the data. (Before the first callback both are
\* empty.)
C26_ParentAgreesWithSelection ==
    hasOnRowSelect => selectedUsers = filterSelected(data, selectedRows)

NonPopulated == loading \/ Len(data) = 0

\* C27: while the table shows the loading or the empty state nothing changes
\* the sort configuration or the selection set and no callback is invoked, and
\* the steps into and out of those states keep both, so the populated table
\* comes back with the values it left with.
C27_NonPopulatedKeepsState ==
    [][ (NonPopulated \/ NonPopulated') =>
            /\ sortConfig' = sortConfig
            /\ selectedRows' = selectedRows
            /\ delivered' = <<>>
      ]_vars

C27_Witness ==
    /\ lastEvent.op = "setLoading"
    /\ ~loading
    /\ Len(data) > 0
    /\ selectedRows # {}
    /\ sortConfig.key # NoKey

\* C23: the rendered input type is 'text' when type is 'password',
\* showPasswordToggle is set and the toggle has been clicked an odd number of
\* times since mount; in every other case it is the type prop.
C23_InputType ==
    field.mounted =>
        inputType(field) =
            (IF field.type = "password" /\ field.showPasswordToggle
                    /\ field.clicks % 2 = 1
             THEN "text" ELSE field.type)

C23_Witness ==
    /\ field.mounted
    /\ field.type = "password"
    /\ ~field.showPasswordToggle
    /\ field.clicks % 2 = 1
    /\ lastEvent.op = "setProp"

\* C24: the clear button is rendered exactly when clearable is set, the value
\* is non-empty and the field is neither loading nor disabled; a click on it
\* calls onChange once with target value '' and changes neither state cell;
\* without onChange the click does nothing.
C24_ClearButton ==
    [][ /\ field.mounted =>
               (ClearRendered(field) <=>
                    (field.clearable /\ field.value # ""
                        /\ ~field.loading /\ ~field.disabled))
        /\ lastEvent'.op = "clear" =>
               /\ field.clearable /\ field.value # ""
               /\ ~field.loading /\ ~field.disabled
               /\ field'.showPassword = field.showPassword
               /\ field'.isFocused = field.isFocused
               /\ IF field.hasOnChange
                  THEN delivered' = << [target |-> [value |-> ""]] >>
                  ELSE delivered' = <<>> /\ field' = field
      ]_vars

C24_Witness ==
    /\ field.mounted
    /\ lastEvent.op = "clear"
    /\ field.hasOnChange
    /\ field.value = ""
    /\ field.showPassword
    /\ delivered = << [target |-> [value |-> ""]] >>

\* C28: at most one of the three trailing adornments (spinner, clear button,
\* password toggle) is rendered.
C28_OneAdornment ==
    field.mounted => Cardinality(Adornments(field)) <= 1

====
